---------------------------- MODULE Spec2Model ----------------------------
(***************************************************************************)
(* Model of diskkinematicmodel.py: the rotation-curve classes and          *)
(* DiskKinematicModel (construction, get_circular_velocity, observables,   *)
(* differential_velocity_field).                                           *)
(*                                                                         *)
(* Floating-point numbers are modelled as fixed-point numbers: a float is  *)
(* a record [k, v], k = "num" with v the value counted in units of         *)
(* 1/Quantum, k = "nan" for NaN, k = "inf" with v = 1 or -1 for +-inf.     *)
(* Every product, quotient and square root rounds to the nearest unit, as  *)
(* every float operation rounds to the nearest representable number.       *)
(* Arrays are sequences; an array of shape (3,N) is a sequence of N        *)
(* 3-vectors (its columns).  A raised exception is a result record whose   *)
(* err field is the exception's name ("" when the call returned).          *)
(***************************************************************************)
EXTENDS Integers, Sequences, FiniteSets, TLC

\* ------------------------------------------------------------------------
\* numpy float arithmetic
\* ------------------------------------------------------------------------

\* One unit (1.0) counted in the model's smallest representable step.
Quantum == 100

Num(n) == [k |-> "num", v |-> n]
NaN == [k |-> "nan", v |-> 0]
Inf(s) == [k |-> "inf", v |-> s]
Zero == Num(0)
One == Num(Quantum)

IsNum(a) == a.k = "num"
IsNaN(a) == a.k = "nan"
IsInf(a) == a.k = "inf"

Sign(n) == IF n > 0 THEN 1 ELSE IF n < 0 THEN -1 ELSE 0
Abs(n) == IF n < 0 THEN -n ELSE n

\* n / d rounded to the nearest integer (d > 0), halves away from zero.
RoundDiv(n, d) == Sign(n) * ((2 * Abs(n) + d) \div (2 * d))

FSign(a) == IF IsNum(a) THEN Sign(a.v) ELSE a.v

FNeg(a) == IF IsNaN(a) THEN NaN ELSE [k |-> a.k, v |-> -a.v]

FAdd(a, b) ==
    IF IsNaN(a) \/ IsNaN(b) THEN NaN
    ELSE IF IsInf(a) /\ IsInf(b) THEN (IF a.v = b.v THEN a ELSE NaN)
    ELSE IF IsInf(a) THEN a
    ELSE IF IsInf(b) THEN b
    ELSE Num(a.v + b.v)

FSub(a, b) == FAdd(a, FNeg(b))

FMul(a, b) ==
    IF IsNaN(a) \/ IsNaN(b) THEN NaN
    ELSE IF IsInf(a) \/ IsInf(b)
         THEN (IF FSign(a) * FSign(b) = 0 THEN NaN ELSE Inf(FSign(a) * FSign(b)))
    ELSE Num(RoundDiv(a.v * b.v, Quantum))

\* numpy scalar division: x/0 is +-inf, 0/0 is nan (a warning, no exception).
FDiv(a, b) ==
    IF IsNaN(a) \/ IsNaN(b) THEN NaN
    ELSE IF IsInf(a) THEN (IF IsInf(b) THEN NaN
                           ELSE Inf(a.v * (IF b.v < 0 THEN -1 ELSE 1)))
    ELSE IF IsInf(b) THEN Zero
    ELSE IF b.v = 0 THEN (IF a.v = 0 THEN NaN ELSE Inf(Sign(a.v)))
    ELSE Num(Sign(b.v) * RoundDiv(a.v * Quantum, Abs(b.v)))

RECURSIVE ISqrtIn(_, _, _)
ISqrtIn(n, lo, hi) ==
    IF lo >= hi THEN lo
    ELSE LET mid == (lo + hi + 1) \div 2
         IN  IF mid * mid <= n THEN ISqrtIn(n, mid, hi) ELSE ISqrtIn(n, lo, mid - 1)

\* floor(sqrt(n)) for 0 <= n < 2^30
ISqrt(n) == ISqrtIn(n, 0, 32767)

\* np.sqrt: nan for a negative argument (a warning, no exception).
FSqrt(a) ==
    IF IsNaN(a) THEN NaN
    ELSE IF IsInf(a) THEN (IF a.v > 0 THEN a ELSE NaN)
    ELSE IF a.v < 0 THEN NaN
    ELSE LET r == ISqrt(a.v * Quantum)
         IN  Num(IF (r + 1) * (r + 1) - a.v * Quantum <= a.v * Quantum - r * r
                 THEN r + 1 ELSE r)

\* The array of the n elements a[1], ..., a[n], each computed once
RECURSIVE Elements(_, _)
Elements(a, n) == IF n = 0 THEN <<>> ELSE Append(Elements(a, n - 1), a[n])

\* 3-vectors
Vec(x, y, z) == <<x, y, z>>
VAdd(a, b) == <<FAdd(a[1], b[1]), FAdd(a[2], b[2]), FAdd(a[3], b[3])>>
VSub(a, b) == <<FSub(a[1], b[1]), FSub(a[2], b[2]), FSub(a[3], b[3])>>
VScale(s, a) == <<FMul(s, a[1]), FMul(s, a[2]), FMul(s, a[3])>>
\* np.dot of two 3-vectors
Dot(a, b) == FAdd(FAdd(FMul(a[1], b[1]), FMul(a[2], b[2])), FMul(a[3], b[3]))
\* np.all(np.isnan(v))
AllNaN(v) == \A i \in DOMAIN v : IsNaN(v[i])
\* np.any(np.isnan(v))
AnyNaN(v) == \E i \in DOMAIN v : IsNaN(v[i])

\* ------------------------------------------------------------------------
\* Angles, arctan2, cartesian_to_spherical, normal_triad
\* ------------------------------------------------------------------------

\* An angle is carried as what np.sin and np.cos return for it.
Angle(s, c) == [s |-> s, c |-> c]

\* sin(45 deg) = sqrt(1/2), rounded
SinQuarter == FSqrt(Num(Quantum \div 2))

\* The angles the callers pass, in degrees; np.sin / np.cos of each.
AngleOfDeg(d) ==
    LET h == SinQuarter
    IN  CASE d = 0   -> Angle(Zero, One)
          [] d = 45  -> Angle(h, h)
          [] d = 90  -> Angle(One, Zero)
          [] d = 135 -> Angle(h, FNeg(h))
          [] d = 180 -> Angle(Zero, FNeg(One))
          [] d = 225 -> Angle(FNeg(h), FNeg(h))
          [] d = 270 -> Angle(FNeg(One), Zero)
          [] d = 315 -> Angle(FNeg(h), h)
          [] d = -45 -> Angle(FNeg(h), h)
          [] d = -90 -> Angle(FNeg(One), Zero)

\* sqrt(x^2 + y^2), rounded once
Hypot(x, y) ==
    IF IsNaN(x) \/ IsNaN(y) THEN NaN
    ELSE LET n == x.v * x.v + y.v * y.v
             r == ISqrt(n)
         IN  Num(IF (r + 1) * (r + 1) - n <= n - r * r THEN r + 1 ELSE r)

\* np.arctan2(y, x); arctan2(0, 0) = 0
Arctan2(y, x) ==
    LET h == Hypot(x, y)
    IN  IF IsNaN(h) THEN Angle(NaN, NaN)
        ELSE IF h.v = 0 THEN Angle(Zero, One)
        ELSE Angle(FDiv(y, h), FDiv(x, h))

\* astropy cartesian_to_spherical: (distance, latitude, longitude)
CartesianToSpherical(x, y, z) ==
    LET s == Hypot(x, y)
    IN  [dist |-> Hypot(s, z), lat |-> Arctan2(z, s), lon |-> Arctan2(y, x)]

\* pygaia normal_triad for one direction (phi = l, theta = b)
TriadP(l) == Vec(FNeg(l.s), l.c, Zero)
TriadQ(l, b) == Vec(FMul(FNeg(b.s), l.c), FMul(FNeg(b.s), l.s), b.c)
TriadR(l, b) == Vec(FMul(b.c, l.c), FMul(b.c, l.s), b.s)

\* numpy broadcasting of two 1-D lengths; 0 when the shapes do not broadcast
BcLen(n, m) == IF n = m THEN n ELSE IF n = 1 THEN m ELSE IF m = 1 THEN n ELSE 0
\* element i of a 1-D array broadcast to a longer one
BcAt(a, i) == IF Len(a) = 1 THEN a[1] ELSE a[i]

\* normal_triad on 1-D arrays l, b.  p has the shape of l; q and r are built
\* with np.array from rows of shapes broadcast(l,b), broadcast(l,b), shape(b):
\* the rows must have one shape.
NormalTriad(l, b) ==
    LET n == BcLen(Len(l), Len(b))
    IN  IF n = 0 \/ Len(b) # n
        THEN [err |-> "ValueError", p |-> <<>>, q |-> <<>>, r |-> <<>>]
        ELSE [err |-> "",
              p |-> Elements([i \in 1..Len(l) |-> TriadP(l[i])], Len(l)),
              q |-> Elements([i \in 1..n |-> TriadQ(BcAt(l, i), b[i])], n),
              r |-> Elements([i \in 1..n |-> TriadR(BcAt(l, i), b[i])], n)]

\* ------------------------------------------------------------------------
\* Rotation curves (the potential's circular_velocity capability)
\* ------------------------------------------------------------------------

Origin == Vec(Zero, Zero, Zero)

\* the wrapped potential finite everywhere
WrappedBovyFinite(pos) == One

\* BovyMWPotential2014.circular_velocity at one position, as the rotation-curve
\* classes use it (multiplied by 0.0): finite everywhere but at r = 0, where
\* gala divides the position by r.
WrappedBovy(pos) ==
    IF AnyNaN(pos) \/ pos = Origin THEN NaN ELSE One

\* np.power(base, (p-2)/4) for the exponents p in use (p = 2, 6, -2)
PowerP(base, p) ==
    CASE p = 2  -> One
      [] p = 6  -> base
      [] p = -2 -> FDiv(One, base)

FlatRotationCurve(vcirc) ==
    [kind |-> "flat", vcirc |-> Num(vcirc * Quantum), rsun |-> Zero, h |-> Zero,
     p |-> 0, v0 |-> Zero, fails |-> "never"]

SolidBodyRotationCurve(vcircsun, rsun) ==
    [kind |-> "solid", vcirc |-> Num(vcircsun * Quantum), rsun |-> Num(rsun * Quantum),
     h |-> Zero, p |-> 0, v0 |-> Zero, fails |-> "never"]

\* pc -> kpc and kpc -> pc (astropy .to)
ToKpc(a) == IF IsNum(a) THEN Num(RoundDiv(a.v, 1000)) ELSE a
ToPc(a) == IF IsNum(a) THEN Num(a.v * 1000) ELSE a

BPShape(x, p) == FMul(x, PowerP(FAdd(One, FMul(x, x)), p))

\* the curve with v0 left at vcircsun
BrunettiPfennigerUnsolved(vcircsun, rsun, h, p) ==
    [kind |-> "bp", vcirc |-> Num(vcircsun * Quantum), rsun |-> Num(rsun * Quantum),
     h |-> Num(h * Quantum), p |-> p, v0 |-> Num(vcircsun * Quantum), fails |-> "never"]

\* v0 is solved from vcircsun at construction
BrunettiPfennigerRotationCurve(vcircsun, rsun, h, p) ==
    LET xs == FDiv(ToKpc(Num(rsun * Quantum)), Num(h * Quantum))
    IN  [kind |-> "bp", vcirc |-> Num(vcircsun * Quantum), rsun |-> Num(rsun * Quantum),
         h |-> Num(h * Quantum), p |-> p,
         v0 |-> FDiv(Num(vcircsun * Quantum), BPShape(xs, p)), fails |-> "never"]

\* A potential object supplied by the caller (a gala potential or any object
\* with a circular_velocity method): its curve rises linearly from vcirc with
\* the spherical radius, and its evaluator raises for the positions it does
\* not accept (fails = "offplane": any position with z # 0).
ExternalPotential(vcirc, fails) ==
    [kind |-> "external", vcirc |-> Num(vcirc * Quantum), rsun |-> Zero, h |-> Zero,
     p |-> 0, v0 |-> Zero, fails |-> fails]

\* The length units positions and distances are expressed in
LengthUnits == {"kpc", "pc"}
\* astropy .to(unit) of a length
ToUnit(a, from, to) ==
    IF from = to THEN a ELSE IF to = "pc" THEN ToPc(a) ELSE ToKpc(a)

\* circular_velocity at one position, a quantity in the given length unit
SpeedAtQuantity(pot, unit, pos) ==
    CASE pot.kind = "flat" ->
           FAdd(FMul(WrappedBovy(pos), Zero), pot.vcirc)
      [] pot.kind = "solid" ->
           LET rq == ToUnit(FSqrt(FAdd(FMul(pos[1], pos[1]), FMul(pos[2], pos[2]))),
                            unit, "pc")
           IN  FAdd(FMul(WrappedBovy(pos), Zero), FMul(pot.vcirc, FDiv(rq, pot.rsun)))
      [] pot.kind = "bp" ->
           LET rq == ToUnit(FSqrt(FAdd(FMul(pos[1], pos[1]), FMul(pos[2], pos[2]))),
                            unit, "kpc")
           IN  FAdd(FMul(WrappedBovy(pos), Zero),
                    FMul(pot.v0, BPShape(FDiv(rq, pot.h), pot.p)))
      [] pot.kind = "external" ->
           IF AnyNaN(pos) \/ pos = Origin THEN NaN
           ELSE FAdd(pot.vcirc,
                     Hypot(Hypot(ToUnit(pos[1], unit, "kpc"), ToUnit(pos[2], unit, "kpc")),
                           ToUnit(pos[3], unit, "kpc")))

\* circular_velocity at one position in kpc
SpeedAt(pot, pos) == SpeedAtQuantity(pot, "kpc", pos)

\* Does the evaluator raise for this position?
Rejects(pot, pos) == pot.fails = "offplane" /\ pos[3] # Zero

\* The wrapped BovyMWPotential2014 raises for positions that do not have three
\* components; the rotation-curve classes evaluate it on every call.
WrappedRaises(pot, q) ==
    pot.kind # "external" /\ \E i \in 1..Len(q) : Len(q[i]) # 3

\* pot.circular_velocity(q) for q a sequence of positions in the given length
\* unit: the speeds, one per position, or the evaluator's exception.
CircularVelocityIn(pot, unit, q) ==
    IF WrappedRaises(pot, q) THEN [err |-> "ValueError", val |-> <<>>]
    ELSE IF \E i \in 1..Len(q) : Rejects(pot, q[i])
    THEN [err |-> "PotentialError", val |-> <<>>]
    ELSE [err |-> "",
          val |-> Elements([i \in 1..Len(q) |-> SpeedAtQuantity(pot, unit, q[i])], Len(q))]

\* pot.circular_velocity(q) for positions in kpc
CircularVelocity(pot, q) == CircularVelocityIn(pot, "kpc", q)

\* ------------------------------------------------------------------------
\* DiskKinematicModel
\* ------------------------------------------------------------------------

\* (c.au / 1 yr) in km/s = 4.74047..., counted in 1/Quantum
AuKmYearPerSec == 474

\* The default of the keyword arguments vsunpec and sunpos: the scalar np.nan
NoOverride == <<NaN>>

\* No DiskKinematicModel object exists (before construction, or after a
\* construction that raised).
NoModel ==
    [made |-> FALSE, pot |-> FlatRotationCurve(0), sunpos |-> Origin,
     vsunpec |-> Origin, vphisun |-> Zero, vsun |-> Origin]

DiskKinematicModelInitNoPeculiar(pot, sunpos, vsunpeculiar) ==
    LET cv == CircularVelocity(pot, <<sunpos>>)
    IN  IF cv.err # "" THEN [err |-> cv.err, poterr |-> cv.err, self |-> NoModel]
        ELSE LET vphisun == FNeg(cv.val[1])
             IN  [err |-> "", poterr |-> "",
                  self |-> [made |-> TRUE, pot |-> pot, sunpos |-> sunpos,
                            vsunpec |-> vsunpeculiar, vphisun |-> vphisun,
                            vsun |-> Vec(Zero, FNeg(vphisun), Zero)]]

\* DiskKinematicModel.__init__: the object, or the exception that left none.
DiskKinematicModelInit(pot, sunpos, vsunpeculiar) ==
    LET cv == CircularVelocity(pot, <<sunpos>>)
    IN  IF cv.err # "" THEN [err |-> cv.err, poterr |-> cv.err, self |-> NoModel]
        ELSE LET vphisun == FNeg(cv.val[1])
             IN  [err |-> "", poterr |-> "",
                  self |-> [made |-> TRUE, pot |-> pot, sunpos |-> sunpos,
                            vsunpec |-> vsunpeculiar, vphisun |-> vphisun,
                            vsun |-> VAdd(Vec(Zero, FNeg(vphisun), Zero), vsunpeculiar)]]

\* the query overwrites the stored solar rotation speed
GetCircularVelocityStoring(self, pos) ==
    [self |-> [self EXCEPT !.vphisun = Zero],
     err |-> CircularVelocity(self.pot, pos).err,
     poterr |-> CircularVelocity(self.pot, pos).err,
     val |-> CircularVelocity(self.pot, pos).val]

\* get_circular_velocity(pos).  Every call result carries, beside what the
\* call returned (err = "") or raised (err = the exception), the object after
\* the call (self) and poterr: the exception the potential's evaluator raised
\* during the call ("" when it raised none).
GetCircularVelocity(self, pos) ==
    LET cv == CircularVelocity(self.pot, pos)
    IN  [self |-> self, err |-> cv.err, poterr |-> cv.err, val |-> cv.val]

CircularOrbitVelocitySwapped(vphistar, phi) ==
    Vec(FMul(FNeg(vphistar), phi.c), FMul(vphistar, phi.s), Zero)

\* the Cartesian velocity of a star on a circular orbit, from vphistar and phi
CircularOrbitVelocity(vphistar, phi) ==
    Vec(FMul(FNeg(vphistar), phi.s), FMul(vphistar, phi.c), Zero)

\* v / distance
ProperMotionUnscaled(v, distance) == FDiv(v, distance)

\* v / (distance * _au_km_year_per_sec)
ProperMotion(v, distance) == FDiv(v, FMul(distance, Num(AuKmYearPerSec)))

ObsRaiseWrapped(self, e) ==
    [self |-> self, err |-> "RuntimeError", poterr |-> "", pml |-> <<>>, pmb |-> <<>>,
     vrad |-> <<>>, vsun |-> <<>>, starpos |-> <<>>, vstar |-> <<>>]

\* observables leaves by an exception: nothing is returned
ObsRaise(self, e) ==
    [self |-> self, err |-> e, poterr |-> "", pml |-> <<>>, pmb |-> <<>>, vrad |-> <<>>,
     vsun |-> <<>>, starpos |-> <<>>, vstar |-> <<>>]

\* the rotation part put in the x component
EffectiveSolarVelocityInX(self, vsunpec) ==
    VAdd(Vec(FNeg(self.vphisun), Zero, Zero), vsunpec)

\* The solar velocity observables subtracts from every star's velocity.
EffectiveSolarVelocity(self, vsunpec) ==
    VAdd(Vec(Zero, FNeg(self.vphisun), Zero), vsunpec)

\* The object after observables has replaced absent overrides by the stored
\* values: vsunpec and sunpos are rebound as locals, no attribute is assigned.
SelfKeepsVsunpec(self, vsunpec, sunpos) == [self EXCEPT !.vsunpec = vsunpec]
SelfKeepsSunpos(self, vsunpec, sunpos) == [self EXCEPT !.sunpos = sunpos]
SelfAfterOverrides(self, vsunpec, sunpos) == self

\* starpos = ((distance*r).T + sunpos).T
StarPositions(distance, r, sunpos) ==
    Elements([i \in 1..BcLen(Len(distance), Len(r)) |->
                VAdd(VScale(BcAt(distance, i), BcAt(r, i)), sunpos)],
             BcLen(Len(distance), Len(r)))

\* every star moves with the speed at the first star's position
StarVelocitiesOfFirst(speeds, starpos) ==
    Elements([i \in 1..Len(starpos) |->
                CircularOrbitVelocity(FNeg(speeds[1]),
                                      Arctan2(starpos[i][2], starpos[i][1]))],
             Len(starpos))

\* vphistar, phi and vstar of every star
StarVelocities(speeds, starpos) ==
    Elements([i \in 1..Len(starpos) |->
                CircularOrbitVelocity(FNeg(speeds[i]),
                                      Arctan2(starpos[i][2], starpos[i][1]))],
             Len(starpos))

\* vdiff and the loop over range(distance.size), which reads column i of r,
\* vdiff, p and q
ObservablesProject(self, distance, t, vsun, starpos, vstar) ==
    IF Len(distance) > Len(t.r) \/ Len(distance) > Len(t.p) \/ Len(distance) > Len(t.q)
    THEN ObsRaise(self, "IndexError")
    ELSE [self |-> self, err |-> "", poterr |-> "",
          pml |-> Elements([i \in 1..Len(distance) |->
                     ProperMotion(Dot(t.p[i], VSub(vstar[i], vsun)), distance[i])],
                     Len(distance)),
          pmb |-> Elements([i \in 1..Len(distance) |->
                     ProperMotion(Dot(t.q[i], VSub(vstar[i], vsun)), distance[i])],
                     Len(distance)),
          vrad |-> Elements([i \in 1..Len(distance) |-> Dot(t.r[i], VSub(vstar[i], vsun))],
                     Len(distance)),
          vsun |-> vsun, starpos |-> starpos, vstar |-> vstar]

\* the evaluator has answered for the stars' positions
ObservablesFrom(self, distance, t, vsun, starpos, cv) ==
    IF cv.err # "" THEN [ObsRaise(self, cv.err) EXCEPT !.poterr = cv.err]
    ELSE ObservablesProject(self, distance, t, vsun, starpos,
                            StarVelocities(cv.val, starpos))

ObservablesAt(self, distance, t, vsun, starpos) ==
    ObservablesFrom(self, distance, t, vsun, starpos, CircularVelocity(self.pot, starpos))

\* the triad is made and the overrides are settled
ObservablesWith(self, distance, t, vsunpec, sunpos) ==
    IF t.err # "" THEN ObsRaise(self, t.err)
    ELSE IF BcLen(Len(distance), Len(t.r)) = 0
    THEN ObsRaise(SelfAfterOverrides(self, vsunpec, sunpos), "ValueError")
    ELSE ObservablesAt(SelfAfterOverrides(self, vsunpec, sunpos), distance, t,
                       EffectiveSolarVelocity(self, vsunpec),
                       StarPositions(distance, t.r, sunpos))

\* observables(distance, l, b, vsunpec, sunpos): pml, pmb, vrad, and the
\* locals vsun, starpos and vstar, which the properties read.
Observables(self, distance, l, b, vsunpecArg, sunposArg) ==
    ObservablesWith(self, distance, NormalTriad(l, b),
                    IF AnyNaN(vsunpecArg) THEN self.vsunpec ELSE vsunpecArg,
                    IF AnyNaN(sunposArg) THEN self.sunpos ELSE sunposArg)

\* The distances in kpc: astropy carries the length unit through
\* distance*r + sunpos, and the loop divides by distance[i].to(u.kpc).
DistanceInKpc(unit, distance) ==
    Elements([i \in 1..Len(distance) |-> ToUnit(distance[i], unit, "kpc")], Len(distance))

\* observables on inputs that are not 1-D: the evaluator answers for the star
\* positions, then an indexing or a stacking step raises e.
ObservablesMisshaped(self, e, cv) ==
    IF cv.err # "" THEN [ObsRaise(self, cv.err) EXCEPT !.poterr = cv.err]
    ELSE ObsRaise(self, e)

\* the stored values only, whatever the keyword arguments
ObservablesStoredOnly(self, shape, unit, distance, l, b, vsunpecArg, sunposArg) ==
    Observables(self, DistanceInKpc(unit, distance), l, b, NoOverride, NoOverride)

\* observables on 1-D inputs with a length unit
ObservablesBatch(self, shape, unit, distance, l, b, vsunpecArg, sunposArg) ==
    Observables(self, DistanceInKpc(unit, distance), l, b, vsunpecArg, sunposArg)

\* observables(distance, l, b, vsunpec, sunpos) for distance, l and b of one
\* shape (<<>>: scalars, <<n>>: 1-D, <<n, m>>: 2-D, the elements in row order)
\* and distance a quantity in the given length unit.
\* Scalars: r has shape (3,), starpos has shape (3,), and starpos[1,:] raises
\* IndexError.  2-D: np.vstack of three (n,m) arrays has shape (3n,m); then
\* vstar.T - vsun does not broadcast (n > 1), or np.dot(r[:,i], vdiff[:,i])
\* of a (3,m) with a (3,) array raises (n = 1): ValueError.
ObservablesOfShape(self, shape, unit, distance, l, b, vsunpecArg, sunposArg) ==
    IF Len(shape) = 1
    THEN ObservablesBatch(self, shape, unit, distance, l, b, vsunpecArg, sunposArg)
    ELSE ObservablesMisshaped(self, IF Len(shape) = 0 THEN "IndexError" ELSE "ValueError",
             CircularVelocity(self.pot,
                 StarPositions(DistanceInKpc(unit, distance), NormalTriad(l, b).r,
                               IF AnyNaN(sunposArg) THEN self.sunpos ELSE sunposArg)))

\* 2-D arrays: sequences of rows
Shape(g) == <<Len(g), Len(g[1])>>
\* element (i,j) of a 2-D array broadcast to a larger shape
At2(g, i, j) == g[IF Len(g) = 1 THEN 1 ELSE i][IF Len(g[1]) = 1 THEN 1 ELSE j]
\* numpy broadcasting of two 2-D shapes; <<0,0>> when they do not broadcast
BcShape(s, t) ==
    IF BcLen(s[1], t[1]) = 0 \/ BcLen(s[2], t[2]) = 0 THEN <<0, 0>>
    ELSE <<BcLen(s[1], t[1]), BcLen(s[2], t[2])>>

StackGridsBroadcast(xgrid, ygrid, zgrid) ==
    [err |-> "", shape |-> BcShape(Shape(xgrid), Shape(ygrid)),
     x |-> xgrid, y |-> ygrid, z |-> zgrid]

\* The array the evaluator makes of the list [xgrid, ygrid, zgrid]: the three
\* grids must have one shape.
StackGrids(xgrid, ygrid, zgrid) ==
    IF Shape(xgrid) = Shape(ygrid) /\ Shape(xgrid) = Shape(zgrid)
    THEN [err |-> "", shape |-> Shape(xgrid), x |-> xgrid, y |-> ygrid, z |-> zgrid]
    ELSE [err |-> "ValueError", shape |-> <<0, 0>>, x |-> <<>>, y |-> <<>>, z |-> <<>>]

\* the evaluator on the stacked positions
CircularVelocityStacked(pot, st) ==
    IF st.err # "" THEN [err |-> st.err, poterr |-> "", shape |-> <<0, 0>>, val |-> <<>>]
    ELSE IF \E i \in 1..st.shape[1], j \in 1..st.shape[2] :
              Rejects(pot, Vec(At2(st.x, i, j), At2(st.y, i, j), At2(st.z, i, j)))
    THEN [err |-> "PotentialError", poterr |-> "PotentialError",
          shape |-> <<0, 0>>, val |-> <<>>]
    ELSE [err |-> "", poterr |-> "", shape |-> st.shape,
          val |-> Elements([i \in 1..st.shape[1] |->
                    Elements([j \in 1..st.shape[2] |->
                       SpeedAt(pot, Vec(At2(st.x, i, j), At2(st.y, i, j), At2(st.z, i, j)))],
                       st.shape[2])], st.shape[1])]

\* pot.circular_velocity([xgrid, ygrid, zgrid])
CircularVelocityGrid(pot, xgrid, ygrid, zgrid) ==
    CircularVelocityStacked(pot, StackGrids(xgrid, ygrid, zgrid))

\* |vdiff|^2 - vrad^2, the argument of the square root of vtan
Residue(vdiff, vrad) ==
    FSub(FAdd(FAdd(FMul(vdiff[1], vdiff[1]), FMul(vdiff[2], vdiff[2])),
              FMul(vdiff[3], vdiff[3])),
         FMul(vrad, vrad))

TangentialSpeed(residue) == FSqrt(residue)

\* differential_velocity_field leaves by an exception: nothing is returned
DvfRaise(self, e, pe) ==
    [self |-> self, err |-> e, poterr |-> pe, pml |-> <<>>, pmb |-> <<>>, vrad |-> <<>>,
     vtan |-> <<>>, resid |-> <<>>, vstar |-> <<>>]

\* zgrid = np.zeros_like(xgrid) + z
ZGrid(shape, z) ==
    Elements([i \in 1..shape[1] |-> Elements([j \in 1..shape[2] |-> z], shape[2])],
             shape[1])

\* phi, vphistar and vstar of every cell
GridVelocities(cv, xgrid, ygrid) ==
    Elements([i \in 1..cv.shape[1] |->
       Elements([j \in 1..cv.shape[2] |->
          CircularOrbitVelocity(FNeg(At2(cv.val, i, j)),
                                Arctan2(At2(ygrid, i, j), At2(xgrid, i, j)))],
          cv.shape[2])], cv.shape[1])

\* the cell's proper motions left as velocities
CellUnscaled(vd, sph) ==
    [vrad |-> Dot(TriadR(sph.lon, sph.lat), vd),
     pml |-> Dot(TriadP(sph.lon), vd),
     pmb |-> Dot(TriadQ(sph.lon, sph.lat), vd)]

\* one pass of the double loop: vrad, pml and pmb of a cell from its vdiff and
\* its (dist, b, l)
Cell(vd, sph) ==
    [vrad |-> Dot(TriadR(sph.lon, sph.lat), vd),
     pml |-> ProperMotion(Dot(TriadP(sph.lon), vd), sph.dist),
     pmb |-> ProperMotion(Dot(TriadQ(sph.lon, sph.lat), vd), sph.dist)]

\* the double loop over xgrid.shape
GridCells(self, xgrid, ygrid, zgrid, vstar) ==
    Elements([i \in 1..Len(xgrid) |->
       Elements([j \in 1..Len(xgrid[1]) |->
          Cell(VSub(At2(vstar, i, j), self.vsun),
               CartesianToSpherical(FSub(At2(xgrid, i, j), self.sunpos[1]),
                                    FSub(At2(ygrid, i, j), self.sunpos[2]),
                                    FSub(At2(zgrid, i, j), self.sunpos[3])))],
          Len(xgrid[1]))], Len(xgrid))

\* the argument of vtan's square root, for every cell
Residues(self, vstar, cells) ==
    Elements([i \in 1..Len(vstar) |->
       Elements([j \in 1..Len(vstar[1]) |->
          Residue(VSub(vstar[i][j], self.vsun), At2(cells, i, j).vrad)],
          Len(vstar[1]))], Len(vstar))

DvfResult(self, vstar, cells, resid) ==
    [self |-> self, err |-> "", poterr |-> "",
     pml |-> Elements([i \in 1..Len(cells) |->
                Elements([j \in 1..Len(cells[1]) |-> cells[i][j].pml], Len(cells[1]))],
                Len(cells)),
     pmb |-> Elements([i \in 1..Len(cells) |->
                Elements([j \in 1..Len(cells[1]) |-> cells[i][j].pmb], Len(cells[1]))],
                Len(cells)),
     vrad |-> Elements([i \in 1..Len(cells) |->
                Elements([j \in 1..Len(cells[1]) |-> cells[i][j].vrad], Len(cells[1]))],
                Len(cells)),
     vtan |-> Elements([i \in 1..Len(resid) |->
                Elements([j \in 1..Len(resid[1]) |-> TangentialSpeed(resid[i][j])],
                         Len(resid[1]))], Len(resid)),
     resid |-> resid, vstar |-> vstar]

DvfProject(self, vstar, cells) ==
    DvfResult(self, vstar, cells, Residues(self, vstar, cells))

DvfWith(self, xgrid, ygrid, zgrid, vstar) ==
    DvfProject(self, vstar, GridCells(self, xgrid, ygrid, zgrid, vstar))

\* the evaluator has answered for the grid
DvfFrom(self, xgrid, ygrid, zgrid, cv) ==
    IF cv.err # "" THEN DvfRaise(self, cv.err, cv.poterr)
    ELSE DvfWith(self, xgrid, ygrid, zgrid, GridVelocities(cv, xgrid, ygrid))

DvfAt(self, xgrid, ygrid, zgrid) ==
    DvfFrom(self, xgrid, ygrid, zgrid, CircularVelocityGrid(self.pot, xgrid, ygrid, zgrid))

\* differential_velocity_field(xgrid, ygrid, z): pml, pmb, vrad, vtan, and the
\* locals vstar and resid (the argument of vtan's square root), which the
\* properties read.  The returned p, q, r are not kept.  np.arctan2(ygrid, xgrid)
\* raises when the two shapes do not broadcast.
DifferentialVelocityField(self, xgrid, ygrid, z) ==
    IF BcShape(Shape(ygrid), Shape(xgrid)) = <<0, 0>> THEN DvfRaise(self, "ValueError", "")
    ELSE DvfAt(self, xgrid, ygrid, ZGrid(Shape(xgrid), z))

\* ------------------------------------------------------------------------
\* The caller: what it constructs the model from and what it passes
\* ------------------------------------------------------------------------

\* longest 1-D batch (distance, l, b, positions)
MaxN == 2
\* largest side of a grid
MaxG == 2

Km(x, y, z) == Vec(Num(x * Quantum), Num(y * Quantum), Num(z * Quantum))

Potentials ==
    {FlatRotationCurve(10), SolidBodyRotationCurve(10, 2000),
     BrunettiPfennigerRotationCurve(10, 2000, 1, -2),
     ExternalPotential(8, "never"), ExternalPotential(8, "offplane")}
SunPositions == {Km(-2, 0, 0), Km(-2, 0, 1), Km(0, -2, 0)}
SunPeculiar == {Km(0, 0, 0), Km(1, 2, 1), Km(1, 0, 1)}

\* values the batches cycle through
Distances == <<0, 1, 2>>
Longitudes == <<0, 90, 45, 180>>
Latitudes == <<0, 45>>
Cycle(seq, k) == seq[((k - 1) % Len(seq)) + 1]
\* after so many stars the (distance, l, b) triples repeat
StarCycle == Len(Distances) * Len(Longitudes)

DistanceBatch(k, n) == Elements([i \in 1..n |-> Num(Cycle(Distances, k + i - 1) * Quantum)], n)
LongitudeBatch(k, n) == Elements([i \in 1..n |-> AngleOfDeg(Cycle(Longitudes, k + i - 1))], n)
LatitudeBatch(k, n) == Elements([i \in 1..n |-> AngleOfDeg(Cycle(Latitudes, k + i - 1))], n)

\* the keyword arguments <<vsunpec, sunpos>>: absent, given, given with a NaN
NoOverrides == <<NoOverride, NoOverride>>
Overrides ==
    {NoOverrides, <<Km(2, 1, 0), NoOverride>>,
     <<NoOverride, Km(-1, 0, 0)>>, <<Km(2, 1, 0), Km(-1, 0, 0)>>,
     <<Vec(NaN, One, Zero), Vec(FNeg(One), NaN, Zero)>>}

\* positions passed to get_circular_velocity
QueryPositions == <<Km(-2, 0, 0), Km(1, 1, 0), Km(0, 0, 1), Km(0, 0, 0)>>
PositionBatch(k, n) == Elements([i \in 1..n |-> Cycle(QueryPositions, k + i - 1)], n)

\* grids as np.mgrid makes them: x varies along the rows, y along the columns
GridStartsX == {-2, -1, 0}
GridStartsY == {-1, 0}
GridHeights == {0, 1}
XGrid(x0, shape) == Elements([i \in 1..shape[1] |->
                Elements([j \in 1..shape[2] |-> Num((x0 + i - 1) * Quantum)], shape[2])], shape[1])
YGrid(y0, shape) == Elements([i \in 1..shape[1] |->
                Elements([j \in 1..shape[2] |-> Num((y0 + j - 1) * Quantum)], shape[2])], shape[1])
GridShapes == (1..MaxG) \X (1..MaxG)

\* ------------------------------------------------------------------------
\* State
\* ------------------------------------------------------------------------

VARIABLES
    model,      \* the DiskKinematicModel object (NoModel: none constructed)
    pc,         \* the caller: "idle", or "returned" from the call in last
    last,       \* the last call: op, args, and its result res
    kept,       \* an observables call (args, res) the caller kept to compare with
    between     \* the kinds of call made after kept: "override" (observables
                \* with an override), "other" (another method)

vars == <<model, pc, last, kept, between>>

NoCall == [op |-> "none", args |-> <<>>, res |-> <<>>]

Init ==
    /\ model = NoModel
    /\ pc = "idle"
    /\ last = NoCall
    /\ kept = NoCall
    /\ between = {}

\* DiskKinematicModel(pot, sunpos, vsunpeculiar)
Construct ==
    /\ pc = "idle"
    /\ ~model.made
    /\ \E pot \in Potentials, sunpos \in SunPositions, vsunpeculiar \in SunPeculiar :
         LET res == DiskKinematicModelInit(pot, sunpos, vsunpeculiar)
         IN  /\ model' = res.self
             /\ last' = [op |-> "init", args |-> <<pot, sunpos, vsunpeculiar>>, res |-> res]
    /\ pc' = "returned"
    /\ UNCHANGED <<kept, between>>

\* a call of another method than observables, noted once a result is kept
NoteOther == IF kept.op # "none" THEN between \cup {"other"} ELSE between

\* model.get_circular_velocity(pos) on the given inputs
GetCircularVelocityOn(ks, lens) ==
    /\ pc = "idle"
    /\ model.made
    /\ \E k \in ks, n \in lens :
         LET pos == PositionBatch(k, n)
             res == GetCircularVelocity(model, pos)
         IN  /\ model' = res.self
             /\ last' = [op |-> "get_circular_velocity", args |-> <<pos>>, res |-> res]
    /\ pc' = "returned"
    /\ between' = NoteOther
    /\ UNCHANGED kept

CallGetCircularVelocity == GetCircularVelocityOn(1..Len(QueryPositions), 1..MaxN)

\* model.observables(distance, l, b, vsunpec, sunpos) on the given inputs
ObservablesOn(ks, lens, overrides) ==
    /\ pc = "idle"
    /\ model.made
    /\ \E k \in ks, n \in lens, o \in overrides :
         LET distance == DistanceBatch(k, n[1])
             l == LongitudeBatch(k, n[2])
             b == LatitudeBatch(k, n[3])
             vsunpec == o[1]
             sunpos == o[2]
             res == Observables(model, distance, l, b, vsunpec, sunpos)
         IN  /\ model' = res.self
             /\ last' = [op |-> "observables",
                         args |-> <<distance, l, b, vsunpec, sunpos>>, res |-> res]
             /\ between' = IF kept.op # "none" /\ <<vsunpec, sunpos>> # NoOverrides
                           THEN between \cup {"override"} ELSE between
    /\ pc' = "returned"
    /\ UNCHANGED kept

\* every batch shape, equal or not
CallObservables ==
    ObservablesOn(1..StarCycle, (1..MaxN) \X (1..MaxN) \X (1..MaxN), Overrides)

\* model.differential_velocity_field(xgrid, ygrid, z) on the given inputs
DifferentialVelocityFieldOn(xstarts, ystarts, shapes, heights) ==
    /\ pc = "idle"
    /\ model.made
    /\ \E x0 \in xstarts, y0 \in ystarts, sx \in shapes, sy \in shapes, h \in heights :
         LET xgrid == XGrid(x0, sx)
             ygrid == YGrid(y0, sy)
             z == Num(h * Quantum)
             res == DifferentialVelocityField(model, xgrid, ygrid, z)
         IN  /\ model' = res.self
             /\ last' = [op |-> "differential_velocity_field",
                         args |-> <<xgrid, ygrid, z>>, res |-> res]
    /\ pc' = "returned"
    /\ between' = NoteOther
    /\ UNCHANGED kept

CallDifferentialVelocityField ==
    DifferentialVelocityFieldOn(GridStartsX, GridStartsY, GridShapes, GridHeights)

\* the caller goes on to its next call
Return ==
    /\ pc = "returned"
    /\ pc' = "idle"
    /\ last' = NoCall
    /\ UNCHANGED <<model, kept, between>>

Next ==
    \/ Construct
    \/ CallGetCircularVelocity
    \/ CallObservables
    \/ CallDifferentialVelocityField
    \/ Return

Spec == Init /\ [][Next]_vars

\* ------------------------------------------------------------------------
\* A caller that keeps the result of one observables call and repeats calls
\* ------------------------------------------------------------------------

\* the caller keeps the returned observables to compare later calls with
Keep ==
    /\ pc = "returned"
    /\ last.op = "observables"
    /\ kept.op = "none"
    /\ kept' = last
    /\ pc' = "idle"
    /\ last' = NoCall
    /\ UNCHANGED <<model, between>>

EqualLengths == {<<n, n, n>> : n \in 1..MaxN}

\* batches that start at the second star of the cycle
RepeatObservables == ObservablesOn({2}, EqualLengths, Overrides)

RepeatGetCircularVelocity == GetCircularVelocityOn({1, 3}, {1})

RepeatDifferentialVelocityField ==
    DifferentialVelocityFieldOn({-1}, {0}, {<<1, 1>>, <<MaxG, MaxG>>}, GridHeights)

NextRepeat ==
    \/ Construct
    \/ RepeatGetCircularVelocity
    \/ RepeatObservables
    \/ RepeatDifferentialVelocityField
    \/ Keep
    \/ Return

SpecRepeat == Init /\ [][NextRepeat]_vars

\* ------------------------------------------------------------------------
\* A caller that evaluates the rotation curves directly
\* ------------------------------------------------------------------------

\* a position given in steps of 1/Quantum kpc (10 pc)
Centi(x, y, z) == Vec(Num(x), Num(y), Num(z))

\* constructions with Rsun > 0 and h > 0
Curves ==
    {FlatRotationCurve(10), FlatRotationCurve(7),
     SolidBodyRotationCurve(10, 2000), SolidBodyRotationCurve(10, 200),
     SolidBodyRotationCurve(7, 300),
     BrunettiPfennigerRotationCurve(10, 2000, 1, -2),
     BrunettiPfennigerRotationCurve(10, 2000, 3, 6),
     BrunettiPfennigerRotationCurve(10, 200, 1, 2),
     BrunettiPfennigerRotationCurve(7, 300, 2, -2)}

CurvePositions ==
    <<Centi(-200, 0, 0), Centi(0, 0, 0), Centi(12, 16, 0), Centi(0, 0, 100),
      Centi(18, 24, 100), Centi(120, 160, 0), Centi(0, -20, 50), Centi(30, 0, 0),
      Centi(100, 100, 0), Centi(0, 200, 100), Centi(20, 0, 0), Centi(10, 0, 0)>>
CurveBatch(k, n) == Elements([i \in 1..n |-> Cycle(CurvePositions, k + i - 1)], n)

\* the positions (in kpc) as the caller expresses them in a length unit
Supplied(unit, q) ==
    Elements([i \in 1..Len(q) |->
                Vec(ToUnit(q[i][1], "kpc", unit), ToUnit(q[i][2], "kpc", unit),
                    ToUnit(q[i][3], "kpc", unit))], Len(q))

\* x and y small enough for their squares in pc
PcExpressible(q) ==
    \A i \in 1..Len(q) : Abs(q[i][1].v) <= 30 /\ Abs(q[i][2].v) <= 30

\* the first rows components of every position (3: the positions as they are)
Rows(q, rows) == Elements([i \in 1..Len(q) |-> SubSeq(q[i], 1, rows)], Len(q))
\* the caller passes arrays of shape (3,N), or (2,N) by mistake
RowCounts == {2, 3}

\* curve.circular_velocity(q)
CallCircularVelocity ==
    /\ pc = "idle"
    /\ \E pot \in Curves, k \in 1..Len(CurvePositions), n \in 1..MaxN,
          unit \in LengthUnits, rows \in RowCounts :
         /\ unit = "pc" => PcExpressible(CurveBatch(k, n))
         /\ last' = [op |-> "circular_velocity",
                     args |-> <<pot, unit, Rows(Supplied(unit, CurveBatch(k, n)), rows)>>,
                     res |-> CircularVelocityIn(pot, unit,
                                Rows(Supplied(unit, CurveBatch(k, n)), rows))]
    /\ pc' = "returned"
    /\ UNCHANGED <<model, kept, between>>

NextCurves ==
    \/ CallCircularVelocity
    \/ Return

SpecCurves == Init /\ [][NextCurves]_vars

\* ------------------------------------------------------------------------
\* A caller that passes batches of several shapes and units to observables
\* ------------------------------------------------------------------------

\* the star of the cycle at place i of a batch whose first star is star k
StarAt(k, i) == IF i = 1 THEN k ELSE i + 3
\* the batches start with one of these stars
FirstStars == {2, 3}

BatchDistance(k, n, unit) ==
    Elements([i \in 1..n |->
                ToUnit(Num(Cycle(Distances, StarAt(k, i)) * Quantum), "kpc", unit)], n)
BatchLongitude(k, n) ==
    Elements([i \in 1..n |-> AngleOfDeg(Cycle(Longitudes, StarAt(k, i)))], n)
BatchLatitude(k, n) ==
    Elements([i \in 1..n |-> AngleOfDeg(Cycle(Latitudes, StarAt(k, i)))], n)

\* how the caller calls: the rank of distance, l and b, the unit of distance,
\* and the keyword arguments (none, the model's own values, other values)
CallForms ==
    {<<1, "kpc", "none">>, <<1, "kpc", "stored">>, <<1, "kpc", "given">>,
     <<1, "pc", "none">>, <<0, "kpc", "none">>, <<2, "kpc", "none">>}

BatchShape(rank, n) ==
    CASE rank = 0 -> <<>>
      [] rank = 1 -> <<n>>
      [] rank = 2 -> <<1, n>>

GivenOverrides == <<Km(2, 1, 0), Km(-1, 0, 0)>>
KeywordArguments(self, form) ==
    CASE form = "none" -> NoOverrides
      [] form = "stored" -> <<self.vsunpec, self.sunpos>>
      [] form = "given" -> GivenOverrides

\* model.observables(distance, l, b, vsunpec, sunpos) in one of the call forms
CallObservablesOfShape ==
    /\ pc = "idle"
    /\ model.made
    /\ \E k \in FirstStars, n \in 1..MaxN, f \in CallForms :
         /\ f[1] = 0 => n = 1
         /\ LET distance == BatchDistance(k, n, f[2])
                l == BatchLongitude(k, n)
                b == BatchLatitude(k, n)
                o == KeywordArguments(model, f[3])
                res == ObservablesOfShape(model, BatchShape(f[1], n), f[2],
                                          distance, l, b, o[1], o[2])
            IN  /\ model' = res.self
                /\ last' = [op |-> "observables",
                            args |-> <<distance, l, b, o[1], o[2], f[2], BatchShape(f[1], n)>>,
                            res |-> res]
    /\ pc' = "returned"
    /\ UNCHANGED <<kept, between>>

\* the caller keeps the result of a call with 1-D inputs in kpc
KeepBatch ==
    /\ pc = "returned"
    /\ last.op = "observables"
    /\ kept.op = "none"
    /\ Len(last.args[7]) = 1 /\ last.args[6] = "kpc"
    /\ kept' = last
    /\ pc' = "idle"
    /\ last' = NoCall
    /\ UNCHANGED <<model, between>>

NextShapes ==
    \/ Construct
    \/ CallObservablesOfShape
    \/ KeepBatch
    \/ Return

SpecShapes == Init /\ [][NextShapes]_vars

\* ------------------------------------------------------------------------
\* Properties
\* ------------------------------------------------------------------------

Returned(op) == pc = "returned" /\ last.op = op
\* what observables handed to its caller
Outcome(res) == <<res.err, res.pml, res.pmb, res.vrad>>
Stars(res) == 1..Len(res.vrad)
IsNegative(a) == IsNum(a) /\ a.v < 0

\* C1: a call of observables without overrides, made after a call with
\* overrides, returns what the same call returned before that call.
C1_OverrideLeavesDefaults ==
    (Returned("observables") /\ kept.op = "observables" /\ "override" \in between
       /\ kept.args[4] = NoOverride /\ kept.args[5] = NoOverride
       /\ last.args = kept.args)
    => Outcome(last.res) = Outcome(kept.res)

C1_Witness ==
    /\ Returned("observables") /\ kept.op = "observables" /\ "override" \in between
    /\ kept.args[4] = NoOverride /\ kept.args[5] = NoOverride
    /\ last.args = kept.args
    /\ last.res.err = ""
    /\ model.pot.kind = "solid"

\* C2 (as claimed): a star at distance 0 seen from a model with zero solar
\* peculiar velocity has pml = 0, pmb = 0 and vrad = 0.
C2_StarAtSunIsZero ==
    (Returned("observables") /\ last.res.err = ""
       /\ model.vsunpec = Origin /\ last.args[4] = NoOverride /\ last.args[5] = NoOverride)
    => \A i \in Stars(last.res) :
          last.args[1][i] = Zero
          => /\ last.res.pml[i] = Zero
             /\ last.res.pmb[i] = Zero
             /\ last.res.vrad[i] = Zero

\* the circular speed the potential returns at one position
VcircAt(pot, pos) == CircularVelocity(pot, <<pos>>).val[1]

\* C3 (as claimed): the constructed model stores vsun = (0, -Vcirc_sun, 0) + W.
C3_VsunMinusVcirc ==
    (Returned("init") /\ last.res.err = "")
    => model.vsun = VAdd(Vec(Zero, FNeg(VcircAt(last.args[1], last.args[2])), Zero),
                         last.args[3])

\* C3 (amended): the constructed model stores vsun = (0, +Vcirc_sun, 0) + W,
\* Vcirc_sun the speed the potential returns at the solar position (vphisun
\* is -Vcirc_sun and vsun holds -vphisun).
C3_VsunPlusVcirc ==
    (Returned("init") /\ last.res.err = "")
    => /\ model.vsun = VAdd(Vec(Zero, VcircAt(last.args[1], last.args[2]), Zero),
                            last.args[3])
       /\ model.vphisun = FNeg(VcircAt(last.args[1], last.args[2]))

C3_Witness ==
    /\ Returned("init") /\ last.res.err = ""
    /\ last.args[3] # Origin
    /\ IsNum(model.vsun[2]) /\ model.vsun[2].v > last.args[3][2].v

\* the velocity (-V sin(phi), V cos(phi), 0) at a position, phi = atan2(y, x)
OrbitVelocity(v, pos) ==
    Vec(FMul(FNeg(v), Arctan2(pos[2], pos[1]).s), FMul(v, Arctan2(pos[2], pos[1]).c), Zero)

CellPosition(i, j) == Vec(last.args[1][i][j], last.args[2][i][j], last.args[3])

\* C4 (as claimed): every star (cell) gets the velocity (-V sin(phi), V cos(phi), 0)
\* with V the speed the potential returns at its position.
C4_VelocityFromSpeed ==
    /\ (Returned("observables") /\ last.res.err = "")
       => \A i \in 1..Len(last.res.vstar) :
             last.res.vstar[i] =
                OrbitVelocity(SpeedAt(model.pot, last.res.starpos[i]), last.res.starpos[i])
    /\ (Returned("differential_velocity_field") /\ last.res.err = "")
       => \A i \in 1..Len(last.res.vstar) : \A j \in 1..Len(last.res.vstar[i]) :
             last.res.vstar[i][j] =
                OrbitVelocity(SpeedAt(model.pot, CellPosition(i, j)), CellPosition(i, j))

\* C4 (amended): every star (cell) gets the velocity (-V sin(phi), V cos(phi), 0)
\* with V = vphistar, minus the speed the potential returns at its position.
C4_VelocityFromNegatedSpeed ==
    /\ (Returned("observables") /\ last.res.err = "")
       => \A i \in 1..Len(last.res.vstar) :
             last.res.vstar[i] =
                OrbitVelocity(FNeg(SpeedAt(model.pot, last.res.starpos[i])),
                              last.res.starpos[i])
    /\ (Returned("differential_velocity_field") /\ last.res.err = "")
       => \A i \in 1..Len(last.res.vstar) : \A j \in 1..Len(last.res.vstar[i]) :
             last.res.vstar[i][j] =
                OrbitVelocity(FNeg(SpeedAt(model.pot, CellPosition(i, j))),
                              CellPosition(i, j))

C4_Witness ==
    /\ Returned("differential_velocity_field") /\ last.res.err = ""
    /\ \E i \in 1..Len(last.res.vstar) : \E j \in 1..Len(last.res.vstar[i]) :
          /\ IsNum(last.res.vstar[i][j][1]) /\ last.res.vstar[i][j][1].v > 0
          /\ IsNum(last.res.vstar[i][j][2]) /\ last.res.vstar[i][j][2].v > 0

\* the solar quantities in effect for the last observables call
VsunpecInEffect == IF AnyNaN(last.args[4]) THEN model.vsunpec ELSE last.args[4]
SunposInEffect == IF AnyNaN(last.args[5]) THEN model.sunpos ELSE last.args[5]

\* C5 (as claimed): the solar velocity observables subtracts is the circular
\* speed at the solar position in effect for the call (in y) plus the
\* peculiar velocity in effect for the call.
C5_SolarVelocityFollowsOverrides ==
    (Returned("observables") /\ last.res.err = "")
    => last.res.vsun =
          VAdd(Vec(Zero, SpeedAt(model.pot, SunposInEffect), Zero), VsunpecInEffect)

\* C6 (as claimed): observables raises when the shapes of distance, l and b
\* are not all equal.
C6_MismatchedBatchRaises ==
    (Returned("observables")
       /\ ~(Len(last.args[1]) = Len(last.args[2]) /\ Len(last.args[2]) = Len(last.args[3])))
    => last.res.err # ""

\* C7: differential_velocity_field raises, and returns nothing, when xgrid
\* and ygrid differ in shape.
C7_MismatchedGridRaises ==
    (Returned("differential_velocity_field") /\ Shape(last.args[1]) # Shape(last.args[2]))
    => /\ last.res.err # ""
       /\ <<last.res.pml, last.res.pmb, last.res.vrad, last.res.vtan>>
             = <<<<>>, <<>>, <<>>, <<>>>>

\* the shapes differ and numpy would broadcast them
C7_Witness ==
    /\ Returned("differential_velocity_field")
    /\ Shape(last.args[1]) # Shape(last.args[2])
    /\ BcShape(Shape(last.args[1]), Shape(last.args[2])) = Shape(last.args[1])
    /\ Len(last.args[1]) > 1
    /\ last.res.err = "ValueError"

\* C8 (as claimed): a cell whose residue |dv|^2 - vrad^2 is negative has
\* vtan = 0.
C8_NegativeResidueClamped ==
    (Returned("differential_velocity_field") /\ last.res.err = "")
    => \A i \in 1..Len(last.res.resid) : \A j \in 1..Len(last.res.resid[i]) :
          IsNegative(last.res.resid[i][j]) => last.res.vtan[i][j] = Zero

\* nothing was handed to the caller of the last call
NothingReturned(c) ==
    CASE c.op = "init" -> c.res.self = NoModel
      [] c.op = "get_circular_velocity" -> c.res.val = <<>>
      [] c.op = "observables" -> Outcome(c.res) = <<c.res.err, <<>>, <<>>, <<>>>>
      [] c.op = "differential_velocity_field" ->
           <<c.res.pml, c.res.pmb, c.res.vrad, c.res.vtan>> = <<<<>>, <<>>, <<>>, <<>>>>

\* C9: when the potential's evaluator raises during a call, the call raises
\* that same exception, hands nothing to its caller, and leaves the model as
\* it was.
C9_EvaluatorErrorPropagates ==
    [][(last'.op # "none" /\ last'.res.poterr # "")
       => /\ last'.res.err = last'.res.poterr
          /\ NothingReturned(last')
          /\ model' = model]_vars

C9_Witness ==
    /\ Returned("observables")
    /\ last.res.poterr = "PotentialError"
    /\ last.res.err = "PotentialError"

\* C10: two calls of observables with the same inputs return the same,
\* whatever was called between them.
C10_SameInputsSameOutput ==
    (Returned("observables") /\ kept.op = "observables" /\ last.args = kept.args)
    => Outcome(last.res) = Outcome(kept.res)

C10_Witness ==
    /\ Returned("observables") /\ kept.op = "observables" /\ last.args = kept.args
    /\ between = {"override", "other"}
    /\ last.args[4] # NoOverride
    /\ last.res.err = ""

\* a rotation curve was called with positions of three components
CurveCalled ==
    /\ Returned("circular_velocity")
    /\ \A i \in 1..Len(last.args[3]) : Len(last.args[3][i]) = 3

\* the cylindrical radius of a position, in pc
RadiusPc(unit, pos) ==
    ToUnit(FSqrt(FAdd(FMul(pos[1], pos[1]), FMul(pos[2], pos[2]))), unit, "pc")

\* equal up to the rounding of two operations
Tolerance == Quantum \div 50
Near(a, b) == IsNum(a) /\ IsNum(b) /\ Abs(a.v - b.v) <= Tolerance

\* the position lies at the solar radius the curve was constructed with (the
\* flat curve has none: any radius above 0)
AtSolarRadius(pot, unit, pos) ==
    IF pot.kind = "flat" THEN RadiusPc(unit, pos) # Zero
    ELSE RadiusPc(unit, pos) = pot.rsun

\* C13: each rotation curve, evaluated at a position whose cylindrical radius
\* is the Rsun it was constructed with, returns the Vcirc_sun it was
\* constructed with.
C13_SpeedAtRsunIsVcircsun ==
    CurveCalled
    => \A i \in 1..Len(last.args[3]) :
          AtSolarRadius(last.args[1], last.args[2], last.args[3][i])
          => /\ last.res.err = ""
             /\ Near(last.res.val[i], last.args[1].vcirc)

C13_Witness ==
    /\ CurveCalled
    /\ last.args[1].kind = "bp" /\ last.args[1].p = -2 /\ last.args[2] = "pc"
    /\ \E i \in 1..Len(last.args[3]) :
          /\ AtSolarRadius(last.args[1], last.args[2], last.args[3][i])
          /\ last.args[3][i][1] # Zero /\ last.args[3][i][2] # Zero
          /\ last.args[3][i][3] # Zero
          /\ last.res.val[i] = last.args[1].vcirc
          /\ last.args[1].v0 # last.args[1].vcirc

\* C14 (as claimed): the solid-body and Brunetti-Pfenniger curves return
\* speed 0 for every position with x = y = 0, whatever z.
C14_ZeroSpeedOnAxis ==
    (CurveCalled /\ last.args[1].kind \in {"solid", "bp"})
    => /\ last.res.err = ""
       /\ \A i \in 1..Len(last.args[3]) :
             (last.args[3][i][1] = Zero /\ last.args[3][i][2] = Zero)
             => last.res.val[i] = Zero

\* C15 (as claimed): the solid-body curve returns Vcirc_sun * R / Rsun for
\* every position, whatever z and whatever the length unit.
C15_SolidBodyLinear ==
    (CurveCalled /\ last.args[1].kind = "solid")
    => \A i \in 1..Len(last.args[3]) :
          last.res.val[i] =
             FMul(last.args[1].vcirc,
                  FDiv(RadiusPc(last.args[2], last.args[3][i]), last.args[1].rsun))

\* C16 (as claimed): the flat curve returns one speed per position, each the
\* Vcirc it was constructed with.
C16_FlatConstant ==
    (CurveCalled /\ last.args[1].kind = "flat")
    => /\ Len(last.res.val) = Len(last.args[3])
       /\ \A i \in 1..Len(last.args[3]) : last.res.val[i] = last.args[1].vcirc

\* a <= b up to the rounding of the square root and of the squares
LeqUpTo(a, b, root) ==
    IsNum(a) /\ IsNum(b) /\ IsNum(root) /\ a.v <= b.v + (root.v \div Quantum) + Tolerance

\* dv of a cell: its velocity minus the stored solar velocity
CellDv(i, j) == VSub(last.res.vstar[i][j], model.vsun)

\* C17 (as claimed): every cell of a returned grid satisfies
\* vtan^2 + vrad^2 <= |dv|^2 up to rounding.
C17_TangentialWithinDv ==
    (Returned("differential_velocity_field") /\ last.res.err = "")
    => \A i \in 1..Len(last.res.vtan) : \A j \in 1..Len(last.res.vtan[i]) :
          LeqUpTo(FAdd(FMul(last.res.vtan[i][j], last.res.vtan[i][j]),
                       FMul(last.res.vrad[i][j], last.res.vrad[i][j])),
                  Dot(CellDv(i, j), CellDv(i, j)),
                  last.res.vtan[i][j])

\* (distance, b, l) of a cell seen from the stored solar position
CellSpherical(i, j) ==
    CartesianToSpherical(FSub(CellPosition(i, j)[1], model.sunpos[1]),
                         FSub(CellPosition(i, j)[2], model.sunpos[2]),
                         FSub(CellPosition(i, j)[3], model.sunpos[3]))

\* observables, without overrides, for the one star at the cell's (distance, l, b)
CellPointwise(i, j) ==
    Observables(model, <<CellSpherical(i, j).dist>>, <<CellSpherical(i, j).lon>>,
                <<CellSpherical(i, j).lat>>, NoOverride, NoOverride)

\* the star observables places for the cell's (distance, l, b) is at the cell
Reproduced(i, j) ==
    /\ CellPointwise(i, j).err = ""
    /\ CellPointwise(i, j).starpos[1] = CellPosition(i, j)

StarInput(c, i) == <<c.args[1][i], c.args[2][i], c.args[3][i]>>
StarOutput(c, i) == <<c.res.pml[i], c.res.pmb[i], c.res.vrad[i]>>
\* the stars two calls both have
CommonStars(c, d) ==
    1..(IF Len(c.res.vrad) < Len(d.res.vrad) THEN Len(c.res.vrad) ELSE Len(d.res.vrad))
\* two returned calls with the same unit and the same keyword arguments
SameSolarParameters(c, d) ==
    /\ c.res.err = "" /\ d.res.err = ""
    /\ c.args[4] = d.args[4] /\ c.args[5] = d.args[5] /\ c.args[6] = d.args[6]

\* C11: two returned calls of observables on the same model, with the same
\* solar parameters, that agree on star i return the same pml, pmb, vrad for
\* star i, whatever their other stars are.
C11_StarsIndependent ==
    (Returned("observables") /\ kept.op = "observables" /\ SameSolarParameters(last, kept))
    => \A i \in CommonStars(last, kept) :
          StarInput(last, i) = StarInput(kept, i) => StarOutput(last, i) = StarOutput(kept, i)

\* the calls agree on star 2 only
C11_Witness ==
    /\ Returned("observables") /\ kept.op = "observables" /\ SameSolarParameters(last, kept)
    /\ Len(last.res.vrad) > 1 /\ Len(kept.res.vrad) > 1
    /\ StarInput(last, 1) # StarInput(kept, 1)
    /\ StarOutput(last, 1) # StarOutput(kept, 1)
    /\ StarInput(last, 2) = StarInput(kept, 2)
    /\ IsNum(last.res.pml[2]) /\ last.res.pml[2] # Zero
    /\ model.pot.kind = "solid"

\* dv of star i of the last call: its velocity minus the solar velocity in effect
StarDv(i) == VSub(last.res.vstar[i], last.res.vsun)
\* distance i of the last call in kpc
StarKpc(i) == ToUnit(last.args[1][i], last.args[6], "kpc")

\* C12: for every star, vrad = r . dv, pml = (p . dv) / (distance * A) and
\* pmb = (q . dv) / (distance * A), with (p, q, r) the normal triad of the
\* star's (l, b) and distance in kpc whatever unit it was supplied in.
C12_ProjectionFormulas ==
    (Returned("observables") /\ last.res.err = "")
    => \A i \in Stars(last.res) :
          /\ last.res.vrad[i] = Dot(TriadR(last.args[2][i], last.args[3][i]), StarDv(i))
          /\ last.res.pml[i] =
                FDiv(Dot(TriadP(last.args[2][i]), StarDv(i)),
                     FMul(StarKpc(i), Num(AuKmYearPerSec)))
          /\ last.res.pmb[i] =
                FDiv(Dot(TriadQ(last.args[2][i], last.args[3][i]), StarDv(i)),
                     FMul(StarKpc(i), Num(AuKmYearPerSec)))

\* distances supplied in pc
C12_Witness ==
    /\ Returned("observables") /\ last.res.err = ""
    /\ last.args[6] = "pc"
    /\ Len(last.res.vrad) > 1
    /\ \A i \in Stars(last.res) :
          /\ IsNum(last.res.pml[i]) /\ last.res.pml[i] # Zero
          /\ IsNum(last.res.vrad[i]) /\ last.res.vrad[i] # Zero
    /\ \E i \in Stars(last.res) : IsNum(last.res.pmb[i]) /\ last.res.pmb[i] # Zero

\* C18 (as claimed): observables returns pml, pmb and vrad of the shape of
\* distance, for scalar, 1-D and 2-D inputs.
C18_OutputHasInputShape ==
    (Returned("observables") /\ last.res.poterr = "")
    => /\ last.res.err = ""
       /\ <<Len(last.res.pml)>> = last.args[7]
       /\ <<Len(last.res.pmb)>> = last.args[7]
       /\ <<Len(last.res.vrad)>> = last.args[7]

\* one call is without keyword arguments, the other passes the model's stored
\* vsunpec and sunpos
AbsentAndStored(c, d) ==
    /\ c.args[4] = NoOverride /\ c.args[5] = NoOverride
    /\ d.args[4] = model.vsunpec /\ d.args[5] = model.sunpos

\* C20: a call without overrides returns what the same call with overrides
\* equal to the stored vsunpec and sunpos returns; an override without NaN is
\* the value used: sunpos places the stars, vsunpec enters the solar velocity.
C20_AbsentMeansStored ==
    /\ (Returned("observables") /\ kept.op = "observables"
          /\ last.args[1] = kept.args[1] /\ last.args[2] = kept.args[2]
          /\ last.args[3] = kept.args[3] /\ last.args[6] = kept.args[6]
          /\ last.args[7] = kept.args[7]
          /\ (AbsentAndStored(last, kept) \/ AbsentAndStored(kept, last)))
       => Outcome(last.res) = Outcome(kept.res)
    /\ (Returned("observables") /\ last.res.err = "" /\ ~AnyNaN(last.args[5]))
       => \A i \in Stars(last.res) :
             last.res.starpos[i] =
                VAdd(VScale(StarKpc(i), TriadR(last.args[2][i], last.args[3][i])),
                     last.args[5])
    /\ (Returned("observables") /\ last.res.err = "" /\ ~AnyNaN(last.args[4]))
       => last.res.vsun = VAdd(Vec(Zero, FNeg(model.vphisun), Zero), last.args[4])

C20_Witness ==
    /\ Returned("observables") /\ kept.op = "observables"
    /\ last.args[1] = kept.args[1] /\ last.args[2] = kept.args[2]
    /\ last.args[3] = kept.args[3]
    /\ AbsentAndStored(kept, last)
    /\ last.res.err = ""
    /\ Len(last.res.vrad) > 1
    /\ model.vsunpec # Origin
    /\ \A i \in Stars(last.res) : IsNum(last.res.pml[i]) /\ last.res.pml[i] # Zero

\* some component is NaN
HasNaN(v) == \E i \in 1..Len(v) : IsNaN(v[i])
\* the solar peculiar velocity in effect for the last observables call
VsunpecOfCall == IF HasNaN(last.args[4]) THEN model.vsunpec ELSE last.args[4]

\* the relations the constructor establishes between the fields
FieldsConsistent(self) ==
    /\ self.vphisun = FNeg(VcircAt(self.pot, self.sunpos))
    /\ self.vsun = VAdd(Vec(Zero, FNeg(self.vphisun), Zero), self.vsunpec)

\* C21: no call after construction changes pot, sunpos, vsunpec, vphisun or
\* vsun, and vphisun = -pot.circular_velocity(sunpos) and
\* vsun = (0, -vphisun, 0) + vsunpec hold from construction on.
C21_FieldsFixedAfterConstruction ==
    [][/\ model.made => model' = model
       /\ model'.made => FieldsConsistent(model')]_vars

\* a call with both overrides has returned
C21_Witness ==
    /\ Returned("observables") /\ last.res.err = ""
    /\ model.made /\ model.vsunpec # Origin
    /\ ~HasNaN(last.args[4]) /\ ~HasNaN(last.args[5])
    /\ last.args[4] # model.vsunpec /\ last.args[5] # model.sunpos
    /\ FieldsConsistent(model)

\* the rotation part of the solar velocity in effect for the last call
RotationPart == Vec(Zero, FNeg(model.vphisun), Zero)
\* the last call placed this star at the stored solar position
AtTheSun(i) == last.args[5] = NoOverride /\ last.res.starpos[i] = model.sunpos

\* C22: for a Sun at y = 0, x < 0, a star (cell) at the solar position gets
\* the rotation part of the solar velocity, so its velocity minus the solar
\* velocity is minus the solar peculiar velocity; for a Sun at y # 0 and a
\* non-zero rotation speed the star's velocity is not the rotation part.
C22_SunOnNegativeXAxis ==
    /\ (Returned("observables") /\ last.res.err = "")
       => \A i \in 1..Len(last.res.vstar) :
             AtTheSun(i)
             => IF model.sunpos[2] = Zero /\ IsNegative(model.sunpos[1])
                THEN /\ last.res.vstar[i] = RotationPart
                     /\ VSub(last.res.vstar[i], last.res.vsun)
                           = VSub(Origin, VsunpecOfCall)
                ELSE (model.sunpos[2] # Zero /\ IsNum(model.vphisun)
                         /\ model.vphisun # Zero)
                     => last.res.vstar[i] # RotationPart
    /\ (Returned("differential_velocity_field") /\ last.res.err = ""
          /\ model.sunpos[2] = Zero /\ IsNegative(model.sunpos[1]))
       => \A i \in 1..Len(last.res.vstar) : \A j \in 1..Len(last.res.vstar[i]) :
             CellPosition(i, j) = model.sunpos
             => /\ last.res.vstar[i][j] = RotationPart
                /\ CellDv(i, j) = VSub(Origin, model.vsunpec)

C22_Witness ==
    /\ Returned("observables") /\ last.res.err = ""
    /\ model.sunpos[2] = Zero /\ IsNegative(model.sunpos[1])
    /\ model.vsunpec # Origin
    /\ Len(last.res.vstar) > 1
    /\ AtTheSun(2) /\ ~AtTheSun(1)
    /\ last.res.vstar[2] = RotationPart
    /\ model.vphisun # Zero

\* an override vector with a NaN component and a component that is not NaN
PartlyNaN(v) == Len(v) = 3 /\ HasNaN(v) /\ \E i \in 1..3 : ~IsNaN(v[i])

\* C23: an override with a NaN component counts as absent: the solar
\* velocity is built from the whole stored vsunpec, the stars are placed from
\* the whole stored sunpos, and the call returns what the call without
\* overrides returns (no error is raised for the NaN).
C23_NaNOverrideIsAbsent ==
    /\ (Returned("observables") /\ last.res.err = "" /\ HasNaN(last.args[4]))
       => last.res.vsun = VAdd(RotationPart, model.vsunpec)
    /\ (Returned("observables") /\ last.res.err = "" /\ HasNaN(last.args[5]))
       => \A i \in 1..Len(last.res.starpos) :
             last.res.starpos[i] =
                VAdd(VScale(last.args[1][i], TriadR(last.args[2][i], last.args[3][i])),
                     model.sunpos)
    /\ (Returned("observables") /\ kept.op = "observables"
          /\ last.args[1] = kept.args[1] /\ last.args[2] = kept.args[2]
          /\ last.args[3] = kept.args[3]
          /\ kept.args[4] = NoOverride /\ kept.args[5] = NoOverride
          /\ HasNaN(last.args[4]) /\ HasNaN(last.args[5]))
       => Outcome(last.res) = Outcome(kept.res)

C23_Witness ==
    /\ Returned("observables") /\ kept.op = "observables"
    /\ last.args[1] = kept.args[1] /\ last.args[2] = kept.args[2]
    /\ last.args[3] = kept.args[3]
    /\ kept.args[4] = NoOverride /\ kept.args[5] = NoOverride
    /\ PartlyNaN(last.args[4]) /\ PartlyNaN(last.args[5])
    /\ last.res.err = ""
    /\ model.vsunpec # Origin
    /\ \A i \in Stars(last.res) : IsNum(last.res.pml[i]) /\ last.res.pml[i] # Zero

\* the closed-form speed of a rotation curve at a position
ClosedForm(pot, unit, pos) ==
    CASE pot.kind = "flat" -> pot.vcirc
      [] pot.kind = "solid" -> FMul(pot.vcirc, FDiv(RadiusPc(unit, pos), pot.rsun))
      [] pot.kind = "bp" ->
           FMul(pot.v0, BPShape(FDiv(ToUnit(RadiusPc(unit, pos), "pc", "kpc"), pot.h), pot.p))

\* C24: a rotation curve raises what the wrapped potential raises (positions
\* that do not have three components); otherwise it returns, for every
\* position, the closed-form speed where the wrapped potential's value is
\* finite (everywhere but at the origin) and a non-finite speed where it is
\* not (at the origin).
C24_WrappedEvaluationShowsThrough ==
    Returned("circular_velocity")
    => IF \E i \in 1..Len(last.args[3]) : Len(last.args[3][i]) # 3
       THEN last.res.err = "ValueError" /\ last.res.val = <<>>
       ELSE /\ last.res.err = ""
            /\ Len(last.res.val) = Len(last.args[3])
            /\ \A i \in 1..Len(last.args[3]) :
                  IF last.args[3][i] = Origin
                  THEN ~IsNum(last.res.val[i])
                  ELSE last.res.val[i] = ClosedForm(last.args[1], last.args[2], last.args[3][i])

\* a batch with the origin and another position
C24_Witness ==
    /\ CurveCalled
    /\ last.args[1].kind = "bp"
    /\ Len(last.res.val) > 1
    /\ \E i \in 1..Len(last.args[3]) : last.args[3][i] = Origin /\ IsNaN(last.res.val[i])
    /\ \E i \in 1..Len(last.args[3]) :
          /\ last.args[3][i] # Origin
          /\ IsNum(last.res.val[i]) /\ last.res.val[i] # Zero
          /\ last.res.val[i] # last.args[1].vcirc

=============================================================================
